---- MODULE Spec2Model ----
(***************************************************************************)
(* auto-uv: at interpreter start-up, decide whether the running script     *)
(* should run under `uv run` and, if so, replace the process image.        *)
(*                                                                         *)
(* Strings are sequences of atoms.  Environment values are spelled letter  *)
(* by letter (<<"T","R","U","E">>) so that str.lower() does real work;     *)
(* paths are spelled with the separator "/" as an atom of its own and the  *)
(* names cut into the pieces the code's substring tests can tell apart     *)
(* (<<"/","usr","/","bin","/","tool">>, <<"/","home","/","my","bin">>).    *)
(* Path algebra is posixpath (os.path.sep = "/", os.pathsep = ":").        *)
(***************************************************************************)
EXTENDS Integers, Sequences, FiniteSets, TLC

VARIABLES
    files,        \* regular files of the filesystem (absolute paths)
    dirs,         \* directories of the filesystem that matter (.venv)
    execs,        \* files the process may execute (os.access(.., X_OK))
    cwd,          \* os.getcwd()
    environ,      \* os.environ: UV_RUN_ACTIVE, AUTO_UV_DISABLE, PATH
    argv,         \* sys.argv
    mainFile,     \* __main__.__file__ (NoAttr when the attribute is missing)
    prefixes,     \* sys.prefix and sys.base_prefix
    pc,           \* where the process is
    call,         \* the last call made and its arguments
    ret,          \* what the last call returned
    obs,          \* what the last call did: probe, scans, execve payload
    entryEnv,     \* os.environ when the current call was entered
    replacements, \* successful os.execve calls in the chain so far
    procRuns,     \* times the script body ran in this script invocation
    nprocs        \* processes started so far

vars == <<files, dirs, execs, cwd, environ, argv, mainFile, prefixes, pc, call, ret, obs,
          entryEnv, replacements, procRuns, nprocs>>

world == <<files, dirs, execs, cwd, argv, mainFile, prefixes>>

\* ------------------------------------------------------------------ values

None == <<"<None>">>
NoAttr == <<"<no attribute>">>
NoVal == <<"<unset>">>

sep == "/"
pathsep == ":"

\* -------------------------------------------------------- python strings

\* s.startswith(p)
StartsWith(s, p) == Len(p) <= Len(s) /\ SubSeq(s, 1, Len(p)) = p

\* s.endswith(p)
EndsWith(s, p) == Len(p) <= Len(s) /\ SubSeq(s, Len(s) - Len(p) + 1, Len(s)) = p

\* sub in s
Contains(s, sub) ==
    \E i \in 1..(Len(s) - Len(sub) + 1) : SubSeq(s, i, i + Len(sub) - 1) = sub

\* s.split(c): the pieces of s between occurrences of the atom c
RECURSIVE SplitFrom(_, _, _, _)
SplitFrom(s, c, i, piece) ==
    IF i > Len(s) THEN <<piece>>
    ELSE IF s[i] = c THEN <<piece>> \o SplitFrom(s, c, i + 1, <<>>)
    ELSE SplitFrom(s, c, i + 1, Append(piece, s[i]))

Split(s, c) == SplitFrom(s, c, 1, <<>>)

\* c.join(parts)
RECURSIVE Join(_, _)
Join(parts, c) ==
    IF parts = <<>> THEN <<>>
    ELSE IF Len(parts) = 1 THEN parts[1]
    ELSE parts[1] \o <<c>> \o Join(Tail(parts), c)

LowerChar(c) ==
    CASE c = "T" -> "t" [] c = "R" -> "r" [] c = "U" -> "u" [] c = "E" -> "e"
      [] c = "Y" -> "y" [] c = "S" -> "s" [] c = "N" -> "n" [] c = "O" -> "o"
      [] OTHER -> c

\* s.lower()
Lower(s) == [i \in 1..Len(s) |-> LowerChar(s[i])]

\* bool(s) of a string or None
Truthy(s) == s # None /\ s # NoVal /\ s # <<>>

\* ------------------------------------------------------------- posixpath

isabs(p) == StartsWith(p, <<sep>>)

\* os.path.join(a, p)
join(a, p) ==
    IF isabs(p) THEN p
    ELSE IF a = <<>> \/ EndsWith(a, <<sep>>) THEN a \o p
    ELSE a \o <<sep>> \o p

RECURSIVE NormComps(_, _, _)
NormComps(comps, slashes, new) ==
    IF comps = <<>> THEN new
    ELSE LET comp == Head(comps) IN
         IF comp = <<>> \/ comp = <<".">> THEN NormComps(Tail(comps), slashes, new)
         ELSE IF comp # <<"..">>
                 \/ (slashes = 0 /\ new = <<>>)
                 \/ (new # <<>> /\ new[Len(new)] = <<"..">>)
              THEN NormComps(Tail(comps), slashes, Append(new, comp))
         ELSE IF new # <<>>
              THEN NormComps(Tail(comps), slashes, SubSeq(new, 1, Len(new) - 1))
         ELSE NormComps(Tail(comps), slashes, new)

\* os.path.normpath(p)
normpath(p) ==
    IF p = <<>> THEN <<".">>
    ELSE LET slashes == IF ~StartsWith(p, <<sep>>) THEN 0
                        ELSE IF StartsWith(p, <<sep, sep>>) /\ ~StartsWith(p, <<sep, sep, sep>>)
                             THEN 2 ELSE 1
             body == Join(NormComps(Split(p, sep), slashes, <<>>), sep)
             out == [i \in 1..slashes |-> sep] \o body
         IN IF out = <<>> THEN <<".">> ELSE out

\* os.path.abspath(p)
abspath(p) == normpath(IF isabs(p) THEN p ELSE join(cwd, p))

RECURSIVE RStripSep(_)
RStripSep(s) ==
    IF s # <<>> /\ s[Len(s)] = sep THEN RStripSep(SubSeq(s, 1, Len(s) - 1)) ELSE s

LastSep(p) ==
    IF \E i \in 1..Len(p) : p[i] = sep
    THEN CHOOSE i \in 1..Len(p) : p[i] = sep /\ \A j \in (i + 1)..Len(p) : p[j] # sep
    ELSE 0

\* os.path.dirname(p)
dirname(p) ==
    LET head == SubSeq(p, 1, LastSep(p))
    IN IF head # <<>> /\ \E i \in 1..Len(head) : head[i] # sep
       THEN RStripSep(head) ELSE head

\* os.path.isfile(p), os.path.isdir(p), os.access(p, os.X_OK)
isfile(p) == abspath(p) \in files
isdir(p) == abspath(p) \in dirs
access_X_OK(p) == abspath(p) \in execs

\* --------------------------------------------------- _find_project_root

max_depth == 10

\* os.path.exists in place of isfile / isdir
HasMarker_Exists(check_dir) ==
    \E n \in {<<"pyproject.toml">>, <<".venv">>, <<"uv.lock">>} :
        isfile(join(check_dir, n)) \/ isdir(join(check_dir, n))

\* the marker test of one directory
HasMarker(check_dir) ==
    \/ isfile(join(check_dir, <<"pyproject.toml">>))
    \/ isdir(join(check_dir, <<".venv">>))
    \/ isfile(join(check_dir, <<"uv.lock">>))

\* the walk without the test for the root (parent == check_dir)
RECURSIVE ScanWalk_NoRootStop(_, _, _)
ScanWalk_NoRootStop(check_dir, left, seen) ==
    IF left = 0 THEN [root |-> None, inspected |-> seen]
    ELSE IF HasMarker(check_dir)
         THEN [root |-> check_dir, inspected |-> Append(seen, check_dir)]
    ELSE ScanWalk_NoRootStop(dirname(check_dir), left - 1, Append(seen, check_dir))

\* the loop: `left` iterations remain, `seen` are the directories tested
RECURSIVE ScanWalk(_, _, _)
ScanWalk(check_dir, left, seen) ==
    IF left = 0 THEN [root |-> None, inspected |-> seen]
    ELSE IF HasMarker(check_dir)
         THEN [root |-> check_dir, inspected |-> Append(seen, check_dir)]
    ELSE LET parent == dirname(check_dir) IN
         IF parent = check_dir
         THEN [root |-> None, inspected |-> Append(seen, check_dir)]
         ELSE ScanWalk(parent, left - 1, Append(seen, check_dir))

FindProjectRootWalk(start_dir, depth) == ScanWalk(abspath(start_dir), depth, <<>>)

_find_project_root(start_dir) == FindProjectRootWalk(start_dir, max_depth).root

\* -------------------------------------------------------- should_use_uv

\* os.environ.get(k) and os.environ.get(k, default)
EnvGet(env, k) == IF env[k] = NoVal THEN None ELSE env[k]
EnvGetOr(env, k, default) == IF env[k] = NoVal THEN default ELSE env[k]

\* ("1", "true", "yes")
DisableValues == {<<"1">>, <<"t", "r", "u", "e">>, <<"y", "e", "s">>}

\* os.defpath, searched when PATH is unset
defpath == <<sep, "bin", pathsep, sep, "usr", sep, "bin">>

\* the files named uv in the directories the probe's lookup searches
ProbeCandidates(env) ==
    LET exec_path == Split(EnvGetOr(env, "PATH", defpath), pathsep)
    IN {abspath(join(exec_path[i], <<"uv">>)) : i \in 1..Len(exec_path)}

AllProbeOutcomes ==
    {"ok", "CalledProcessError", "TimeoutExpired", "OSError", "PermissionError",
     "FileNotFoundError"}

\* what subprocess.run(["uv", "--version"], check=True, timeout=2) can do:
\* an executable uv runs, exits non-zero, hangs or cannot be loaded; a uv
\* without execute permission is refused; no uv is not found
ProbeOutcomes(env) ==
    IF ProbeCandidates(env) \cap files \cap execs # {}
    THEN {"ok", "CalledProcessError", "TimeoutExpired", "OSError"}
    ELSE IF ProbeCandidates(env) \cap files # {} THEN {"PermissionError"}
    ELSE {"FileNotFoundError"}

\* except (CalledProcessError, FileNotFoundError, TimeoutExpired)
ProbeCaught == {"CalledProcessError", "FileNotFoundError", "TimeoutExpired"}

\* == "1" in place of truthiness
GuardActive_IsOne(env) == EnvGet(env, "UV_RUN_ACTIVE") = <<"1">>

GuardActive(env) == Truthy(EnvGet(env, "UV_RUN_ACTIVE"))

\* the comparison without .lower()
Disabled_CaseSensitive(env) == EnvGetOr(env, "AUTO_UV_DISABLE", <<>>) \in DisableValues

Disabled(env) == Lower(EnvGetOr(env, "AUTO_UV_DISABLE", <<>>)) \in DisableValues

NoWalk == [root |-> None, inspected |-> <<>>]

\* no fallback to the working directory
ScanFallback_None(first) == first

\* lines 60-61: fall back to the working directory when `first` found nothing
ScanFallback(first) ==
    IF Truthy(first.root) THEN first
    ELSE [FindProjectRootWalk(cwd, max_depth) EXCEPT !.inspected = first.inspected \o @]

\* lines 54-61: script directory first, then the working directory
ProjectScan(script_path) ==
    ScanFallback(IF Truthy(script_path)
                 THEN FindProjectRootWalk(dirname(abspath(script_path)), max_depth)
                 ELSE NoWalk)

Answer(result, raised, probed, inspected) ==
    [result |-> result, raised |-> raised, probed |-> probed, inspected |-> inspected]

\* line 63: return project_root is not None
Decision(scan) == Answer(scan.root # None, "", TRUE, scan.inspected)

\* the probe runs before the environment is looked at
should_use_uv_ProbeFirst(env, script_path, probe) ==
    IF probe \in ProbeCaught THEN Answer(FALSE, "", TRUE, <<>>)
    ELSE IF probe # "ok" THEN Answer(FALSE, probe, TRUE, <<>>)
    ELSE IF GuardActive(env) THEN Answer(FALSE, "", TRUE, <<>>)
    ELSE IF Disabled(env) THEN Answer(FALSE, "", TRUE, <<>>)
    ELSE Decision(ProjectScan(script_path))

\* should_use_uv(script_path) under environment env when the probe ends as
\* `probe`: the value returned, the exception raised ("" for none), whether
\* the probe ran and the directories the scans tested
should_use_uv(env, script_path, probe) ==
    IF GuardActive(env) THEN Answer(FALSE, "", FALSE, <<>>)
    ELSE IF Disabled(env) THEN Answer(FALSE, "", FALSE, <<>>)
    ELSE IF probe \in ProbeCaught THEN Answer(FALSE, "", TRUE, <<>>)
    ELSE IF probe # "ok" THEN Answer(FALSE, probe, TRUE, <<>>)
    ELSE Decision(ProjectScan(script_path))

\* ----------------------------------------------------------- auto_use_uv

sys_platform == "linux"

system_dirs ==
    << <<sep, "usr", sep, "bin">>, <<sep, "usr", sep, "local", sep, "bin">>,
       <<sep, "opt", sep, "bin">>, <<sep, "bin">>, <<sep, "s", "bin">>,
       <<sep, "usr", sep, "s", "bin">>, <<sep, "usr", sep, "local", sep, "s", "bin">> >>

\* the entry point is not compared with sys.argv[0]
IsMainScript_NoCompare(av, mf) == av # <<>> /\ Truthy(av[1]) /\ mf # NoAttr

\* lines 88-103: is this the main script?
IsMainScript(av, mf) ==
    /\ av # <<>>
    /\ Truthy(av[1])
    /\ mf # NoAttr
    /\ (IF Truthy(mf) THEN abspath(mf) ELSE None) = abspath(av[1])

\* dist-packages forgotten
InSitePackages_SiteOnly(script_path) == Contains(script_path, <<"site-packages">>)

InSitePackages(script_path) ==
    \/ Contains(script_path, <<"site-packages">>)
    \/ Contains(script_path, <<"dist-packages">>)

InBinDir(script_path) ==
    \/ Contains(script_path, <<sep, "bin", sep>>)
    \/ Contains(script_path, <<sep, "Scripts", sep>>)
    \/ EndsWith(script_path, <<sep, "bin">>)
    \/ EndsWith(script_path, <<sep, "Scripts">>)
    \/ StartsWith(script_path, <<sep, "bin", sep>>)
    \/ StartsWith(script_path, <<sep, "Scripts", sep>>)

\* sys.base_prefix forgotten
InPrefix_NoBase(script_path, pre) == Contains(script_path, pre.prefix)

InPrefix(script_path, pre) ==
    \/ Contains(script_path, pre.prefix)
    \/ Contains(script_path, pre.base_prefix)

InSystemDir(script_path) ==
    \E i \in 1..Len(system_dirs) :
        \/ StartsWith(script_path, system_dirs[i] \o <<sep>>)
        \/ script_path = system_dirs[i]

\* lines 111-133, on the absolute script path
PathGuards(script_path, pre) ==
    IF InSitePackages(script_path) THEN "site-packages"
    ELSE IF InBinDir(script_path) THEN "bin"
    ELSE IF InPrefix(script_path, pre) THEN "prefix"
    ELSE IF InSystemDir(script_path) THEN "system dir"
    ELSE "pass"

\* lines 88-133: the early exit that rejects, or "pass"
GuardChain(av, mf, pre) ==
    IF ~IsMainScript(av, mf) THEN "not main"
    ELSE IF ~isfile(av[1]) THEN "not a file"
    ELSE PathGuards(abspath(av[1]), pre)

uv_names ==
    IF sys_platform = "win32"
    THEN << <<"uv">>, <<"uv", ".exe">>, <<"uv", ".cmd">>, <<"uv", ".bat">> >>
    ELSE << <<"uv">> >>

RECURSIVE FindInDir(_, _)
FindInDir(path_dir, names) ==
    IF names = <<>> THEN None
    ELSE LET candidate == join(path_dir, Head(names)) IN
         IF isfile(candidate) /\ access_X_OK(candidate) THEN candidate
         ELSE FindInDir(path_dir, Tail(names))

RECURSIVE FindInPath(_)
FindInPath(path_dirs) ==
    IF path_dirs = <<>> THEN None
    ELSE LET found == FindInDir(Head(path_dirs), uv_names) IN
         IF Truthy(found) THEN found ELSE FindInPath(Tail(path_dirs))

\* lines 146-160: the PATH lookup
FindUv(env) == FindInPath(Split(EnvGetOr(env, "PATH", <<>>), pathsep))

\* what os.execve can do: replace the process, or raise
ExecOutcomes == {"replaced", "OSError", "ValueError"}

\* except OSError
ExecCaught_OSError == {"OSError"}

\* except Exception
ExecCaught == {"OSError", "ValueError"}

NoObs ==
    [rejected |-> "", probed |-> FALSE, inspected |-> <<>>, decided |-> FALSE,
     uv_path |-> None, execve |-> FALSE, cmd |-> <<>>, execEnv |-> <<>>,
     warned |-> FALSE]

\* the guard is not set before the replacement
SetGuard_Skip(env) == env

\* os.environ["UV_RUN_ACTIVE"] = "1"
SetGuard(env) == [env EXCEPT !["UV_RUN_ACTIVE"] = <<"1">>]

End(end, env, o) == [end |-> end, env |-> env, obs |-> o]

\* lines 162-171: os.execve(uv_path, cmd, os.environ) ends as `exec`
Execve(tried, env1, exec) ==
    IF exec = "replaced" THEN End("replaced", env1, tried)
    ELSE IF exec \in ExecCaught THEN End("returned", env1, [tried EXCEPT !.warned = TRUE])
    ELSE End("raised", env1, tried)

\* lines 144-167: the lookup found uv_path (or nothing)
Replace(uv_path, cmd, env1, seen, exec) ==
    IF ~Truthy(uv_path) THEN End("returned", env1, seen)
    ELSE Execve([seen EXCEPT !.uv_path = uv_path, !.execve = TRUE, !.cmd = cmd,
                             !.execEnv = env1], env1, exec)

\* only the script is forwarded, its arguments are dropped
Intercept_ScriptOnly(env1, av, seen, exec) ==
    Replace(FindUv(env1), << <<"uv">>, <<"run">>, av[1] >>, env1, seen, exec)

\* lines 136-140: set the guard, build the command
Intercept(env1, av, seen, exec) ==
    Replace(FindUv(env1), << <<"uv">>, <<"run">> >> \o av, env1, seen, exec)

\* line 135 on: should_use_uv answered d
Decided(d, env, av, seen, exec) ==
    IF d.raised # "" THEN End("raised", env, seen)
    ELSE IF ~d.result THEN End("returned", env, seen)
    ELSE Intercept(SetGuard(env), av, seen, exec)

Seen(d) == [NoObs EXCEPT !.probed = d.probed, !.inspected = d.inspected, !.decided = d.result]

Decide(d, env, av, exec) == Decided(d, env, av, Seen(d), exec)

\* the guard chain answered `guard`
Guarded(guard, env, av, probe, exec) ==
    IF guard # "pass" THEN End("returned", env, [NoObs EXCEPT !.rejected = guard])
    ELSE Decide(should_use_uv(env, abspath(av[1]), probe), env, av, exec)

\* auto_use_uv() when the probe ends as `probe` and os.execve as `exec`:
\* how the call ends, the environment it leaves and what it did
auto_use_uv(env, av, mf, pre, probe, exec) ==
    Guarded(GuardChain(av, mf, pre), env, av, probe, exec)

\* ------------------------------------------------------------ the worlds

MaxProcs == 3
DeepLevels == 11

\* the absolute path with the given components
RECURSIVE PathOf(_)
PathOf(comps) ==
    IF comps = <<>> THEN <<>> ELSE <<sep>> \o Head(comps) \o PathOf(Tail(comps))

Root == <<sep>>
HomeDir == PathOf(<< <<"home">> >>)
ProjDir == PathOf(<< <<"home">>, <<"proj">> >>)
SubDir == PathOf(<< <<"home">>, <<"proj">>, <<"a">> >>)
SubSubDir == PathOf(<< <<"home">>, <<"proj">>, <<"a">>, <<"b">> >>)
SrvDir == PathOf(<< <<"srv">> >>)
PyDir == PathOf(<< <<"opt">>, <<"py">> >>)
VenvDir == PathOf(<< <<"home">>, <<"proj">>, <<".venv">> >>)
UvDir == PathOf(<< <<"opt">>, <<"uv">> >>)
UvBin == PathOf(<< <<"opt">>, <<"uv">>, <<"uv">> >>)

\* /d/d/.../d, n levels below the root
Deep(n) == PathOf([i \in 1..n |-> <<"d">>])

ProjScript == PathOf(<< <<"home">>, <<"proj">>, <<"a.py">> >>)
OtherScript == PathOf(<< <<"home">>, <<"proj">>, <<"other.py">> >>)
MissingScript == PathOf(<< <<"home">>, <<"proj">>, <<"missing.py">> >>)
SrvScript == PathOf(<< <<"srv">>, <<"job.py">> >>)
SiteScript == PathOf(<< <<"home">>, <<"proj">>, <<"lib">>, <<"site-packages">>, <<"tool.py">> >>)
DistScript == PathOf(<< <<"home">>, <<"proj">>, <<"dist-packages">>, <<"tool.py">> >>)
BinScript == PathOf(<< <<"home">>, <<"proj">>, <<"bin">>, <<"run.py">> >>)
MyBinScript == PathOf(<< <<"home">>, <<"proj">>, <<"my", "bin">>, <<"run.py">> >>)
PrefixScript == PathOf(<< <<"opt">>, <<"py">>, <<"tool.py">> >>)
VenvScript == PathOf(<< <<"home">>, <<"proj">>, <<".venv">>, <<"tool.py">> >>)
SbinScript == PathOf(<< <<"usr">>, <<"s", "bin">>, <<"tool">> >>)
OptBinScript == PathOf(<< <<"opt">>, <<"bin">>, <<"tool">> >>)
RelScript == <<"a.py">>
DotRelScript == <<".", sep, "a.py">>

ScriptFiles ==
    {ProjScript, OtherScript, SrvScript, SiteScript, DistScript, BinScript,
     MyBinScript, PrefixScript, VenvScript, SbinScript, OptBinScript}

\* sys.argv as the interpreter can set it
ArgvOptions ==
    { <<>>, << <<>> >>, <<ProjScript>>, <<ProjScript, <<"--flag">>, <<"x">> >>,
      <<RelScript>>, <<DotRelScript, <<"x">> >>, <<MissingScript>>, <<SrvScript>>,
      <<SiteScript>>, <<DistScript>>, <<BinScript>>, <<MyBinScript>>,
      <<PrefixScript>>, <<VenvScript>>, <<SbinScript>>, <<OptBinScript>>, <<PyDir>> }

\* __main__.__file__ for a given sys.argv
MainFileOptions(av) ==
    {NoAttr, OtherScript}
    \cup (IF av # <<>> /\ av[1] # <<>> THEN {av[1], normpath(join(ProjDir, av[1]))} ELSE {None, <<>>})

PrefixOptions ==
    { [prefix |-> PyDir, base_prefix |-> PyDir],
      [prefix |-> VenvDir, base_prefix |-> PyDir] }

\* a marker placed in a directory: the entry's name and what it is
MarkerKinds ==
    { [name |-> <<"pyproject.toml">>, type |-> "file"],
      [name |-> <<"uv.lock">>, type |-> "file"],
      [name |-> <<".venv">>, type |-> "dir"],
      [name |-> <<"pyproject.toml">>, type |-> "dir"],
      [name |-> <<".venv">>, type |-> "file"] }

Placements(ds) == {[dir |-> d, kind |-> k] : d \in ds, k \in MarkerKinds}

EntryPath(pl) == IF pl.dir = Root THEN Root \o pl.kind.name ELSE pl.dir \o <<sep>> \o pl.kind.name

\* no marker, one marker or two
UpToTwo(ps) == {{}} \cup {{a, b} : a \in ps, b \in ps}

PlacedFiles(pls) == {EntryPath(pl) : pl \in {q \in pls : q.kind.type = "file"}}
PlacedDirs(pls) == {EntryPath(pl) : pl \in {q \in pls : q.kind.type = "dir"}}

EnvOf(guard, disable, path) ==
    [k \in {"UV_RUN_ACTIVE", "AUTO_UV_DISABLE", "PATH"} |->
        IF k = "UV_RUN_ACTIVE" THEN guard ELSE IF k = "AUTO_UV_DISABLE" THEN disable ELSE path]

PathValue == PathOf(<< <<"nouv">> >>) \o <<pathsep>> \o UvDir

UsrBinUv == PathOf(<< <<"usr">>, <<"bin">>, <<"uv">> >>)

\* the launcher: absent, installed on PATH, installed without execute
\* permission, or installed in /usr/bin with PATH unset
UvInstalls ==
    { [path |-> NoVal, files |-> {}, execs |-> {}],
      [path |-> PathValue, files |-> {UvBin}, execs |-> {UvBin}],
      [path |-> PathValue, files |-> {UvBin}, execs |-> {}],
      [path |-> NoVal, files |-> {UsrBinUv}, execs |-> {UsrBinUv}] }

NoCall == [fn |-> "none"]

Idle ==
    /\ call = NoCall
    /\ ret = NoCall
    /\ obs = NoObs
    /\ replacements = 0
    /\ procRuns = 0
    /\ nprocs = 1

\* -------------------------------------------- calls of _find_project_root

ScanMarkerDirs == {Root, HomeDir, ProjDir, SubSubDir, Deep(1), Deep(2)}

ScanStartDirs ==
    {Root, ProjDir, SubDir, SubSubDir, SrvDir, Deep(max_depth), Deep(DeepLevels),
     <<"a", sep, "b">>, <<".">>, <<"..">>, SubSubDir \o <<sep>>}

InitScan ==
    /\ \E pls \in UpToTwo(Placements(ScanMarkerDirs)) :
          /\ files = PlacedFiles(pls)
          /\ dirs = PlacedDirs(pls)
    /\ execs = {}
    /\ cwd \in {ProjDir, SrvDir}
    /\ environ = EnvOf(NoVal, NoVal, NoVal)
    /\ argv = <<>>
    /\ mainFile = NoAttr
    /\ prefixes = [prefix |-> PyDir, base_prefix |-> PyDir]
    /\ entryEnv = environ
    /\ pc = "idle"
    /\ Idle

FindProjectRootCalled(start_dir, walk) ==
    /\ call' = [fn |-> "_find_project_root", start_dir |-> start_dir]
    /\ ret' = walk.root
    /\ obs' = [NoObs EXCEPT !.inspected = walk.inspected]

CallFindProjectRoot ==
    /\ pc = "idle"
    /\ \E start_dir \in ScanStartDirs :
          FindProjectRootCalled(start_dir, FindProjectRootWalk(start_dir, max_depth))
    /\ pc' = "called"
    /\ UNCHANGED <<world, environ, entryEnv, replacements, procRuns, nprocs>>

NextScan == CallFindProjectRoot

SpecScan == InitScan /\ [][NextScan]_vars

\* ------------------------------------------------- calls of should_use_uv

DecideMarkerDirs == {HomeDir, ProjDir, SrvDir}

GuardValues == {NoVal, <<>>, <<"1">>, <<"0">>}

DisableSettings ==
    {NoVal, <<>>, <<"1">>, <<"t", "r", "u", "e">>, <<"T", "R", "U", "E">>,
     <<"T", "r", "u", "e">>, <<"y", "e", "s">>, <<"Y", "E", "S">>, <<"0">>,
     <<"n", "o">>, <<"o", "n">>, <<"t", "r", "u", "e", "1">>}

ScriptPathArgs == {None, <<>>, ProjScript, SrvScript, RelScript}

InitDecide ==
    /\ \E pls \in {{}} \cup {{a} : a \in Placements(DecideMarkerDirs)}, uv \in UvInstalls :
          /\ files = PlacedFiles(pls) \cup uv.files
          /\ dirs = PlacedDirs(pls)
          /\ execs = uv.execs
          /\ \E g \in GuardValues, d \in DisableSettings : environ = EnvOf(g, d, uv.path)
    /\ cwd \in {ProjDir, SrvDir}
    /\ argv = <<>>
    /\ mainFile = NoAttr
    /\ prefixes = [prefix |-> PyDir, base_prefix |-> PyDir]
    /\ entryEnv = environ
    /\ pc = "idle"
    /\ Idle

ShouldUseUvCalled(script_path, probe, d) ==
    /\ call' = [fn |-> "should_use_uv", script_path |-> script_path,
                probe |-> IF d.probed THEN probe ELSE ""]
    /\ ret' = [result |-> d.result, raised |-> d.raised]
    /\ obs' = Seen(d)

CallShouldUseUv ==
    /\ pc = "idle"
    /\ \E script_path \in ScriptPathArgs, probe \in ProbeOutcomes(environ) :
          ShouldUseUvCalled(script_path, probe, should_use_uv(environ, script_path, probe))
    /\ pc' = "called"
    /\ UNCHANGED <<world, environ, entryEnv, replacements, procRuns, nprocs>>

NextDecide == CallShouldUseUv

SpecDecide == InitDecide /\ [][NextDecide]_vars

\* ------------------------------------------------------ the process chain

ChainMarkers ==
    { {}, {[dir |-> ProjDir, kind |-> [name |-> <<"pyproject.toml">>, type |-> "file"]]},
      {[dir |-> Root, kind |-> [name |-> <<"uv.lock">>, type |-> "file"]]} }

Init ==
    /\ \E pls \in ChainMarkers, uv \in UvInstalls :
          /\ files = ScriptFiles \cup PlacedFiles(pls) \cup uv.files
          /\ dirs = PlacedDirs(pls)
          /\ execs = uv.execs
          /\ \E g \in {NoVal, <<>>, <<"1">>}, d \in {NoVal, <<"Y", "E", "S">>} :
                environ = EnvOf(g, d, uv.path)
    /\ cwd \in {ProjDir, SrvDir}
    /\ argv \in ArgvOptions
    /\ mainFile \in MainFileOptions(argv)
    /\ prefixes \in PrefixOptions
    /\ entryEnv = environ
    /\ pc = "start"
    /\ Idle

AutoUseUvEnded(probe, exec, r) ==
    /\ call' = [fn |-> "auto_use_uv",
                probe |-> IF r.obs.probed THEN probe ELSE "",
                exec |-> IF r.obs.execve THEN exec ELSE ""]
    /\ ret' = r.end
    /\ pc' = r.end
    /\ obs' = r.obs
    /\ environ' = r.env
    /\ replacements' = IF r.end = "replaced" THEN replacements + 1 ELSE replacements

\* the interpreter's start-up runs auto_use_uv()
AutoUseUv ==
    /\ pc = "start"
    /\ \E probe \in ProbeOutcomes(environ), exec \in ExecOutcomes :
          AutoUseUvEnded(probe, exec,
                         auto_use_uv(environ, argv, mainFile, prefixes, probe, exec))
    /\ entryEnv' = environ
    /\ UNCHANGED <<world, procRuns, nprocs>>

\* auto_use_uv returned: the script body runs
RunScript ==
    /\ pc = "returned"
    /\ pc' = "done"
    /\ procRuns' = procRuns + 1
    /\ UNCHANGED <<world, environ, call, ret, obs, entryEnv, replacements, nprocs>>

\* the process image is now `uv run <argv>`: the launcher starts an interpreter
\* on the script with the arguments and the environment it was given
UvRun ==
    /\ pc = "replaced"
    /\ nprocs < MaxProcs
    /\ argv' = SubSeq(obs.cmd, 3, Len(obs.cmd))
    /\ mainFile' = obs.cmd[3]
    /\ environ' = obs.execEnv
    /\ entryEnv' = obs.execEnv
    /\ prefixes' \in PrefixOptions
    /\ pc' = "start"
    /\ nprocs' = nprocs + 1
    /\ call' = NoCall
    /\ ret' = NoCall
    /\ obs' = NoObs
    /\ UNCHANGED <<files, dirs, execs, cwd, replacements, procRuns>>

\* the script starts a child interpreter on a script; the child inherits
\* the environment
SpawnChild ==
    /\ pc = "done"
    /\ nprocs < MaxProcs
    /\ argv' = <<ProjScript>>
    /\ mainFile' = ProjScript
    /\ entryEnv' = environ
    /\ pc' = "start"
    /\ nprocs' = nprocs + 1
    /\ procRuns' = 0
    /\ call' = NoCall
    /\ ret' = NoCall
    /\ obs' = NoObs
    /\ UNCHANGED <<files, dirs, execs, cwd, environ, prefixes, replacements>>

Next == AutoUseUv \/ RunScript \/ UvRun \/ SpawnChild

Spec == Init /\ [][Next]_vars

\* ---------------------------------------------------------------- claims

\* the components of an absolute path, and its k-th ancestor (0: itself)
Comps(p) == SelectSeq(Split(p, sep), LAMBDA c : c # <<>>)

Ancestor(p, k) ==
    IF k >= Len(Comps(p)) THEN Root ELSE PathOf(SubSeq(Comps(p), 1, Len(Comps(p)) - k))

Entry(d, name) == IF d = Root THEN Root \o name ELSE d \o <<sep>> \o name

\* directory d holds a pyproject.toml file, a uv.lock file or a .venv directory
ContainsMarker(d) ==
    \/ Entry(d, <<"pyproject.toml">>) \in files
    \/ Entry(d, <<"uv.lock">>) \in files
    \/ Entry(d, <<".venv">>) \in dirs

\* the levels a walk from p tests: p and its ancestors, up to the root and
\* at most max_depth directories
Levels(p) == {k \in 0..(max_depth - 1) : k <= Len(Comps(p))}

MarkedLevels(p) == {k \in Levels(p) : ContainsMarker(Ancestor(p, k))}

NearestMarked(p) ==
    IF MarkedLevels(p) = {} THEN None
    ELSE Ancestor(p, CHOOSE k \in MarkedLevels(p) : \A j \in MarkedLevels(p) : k <= j)

\* C10: _find_project_root returns the nearest directory, from the start
\* directory upward, that contains a marker, and None when the root or the
\* depth bound is reached without one
C10_ScanResult ==
    call.fn = "_find_project_root" => ret = NearestMarked(abspath(call.start_dir))

\* a marker only in the project directory, scanned from two levels below
C10_Witness ==
    /\ call.fn = "_find_project_root"
    /\ call.start_dir = SubSubDir
    /\ files = {Entry(ProjDir, <<"pyproject.toml">>)}
    /\ dirs = {}
    /\ ret = ProjDir

\* the guard variable holds a non-empty value
GuardSet(env) == env["UV_RUN_ACTIVE"] # NoVal /\ Len(env["UV_RUN_ACTIVE"]) > 0

\* C3: with UV_RUN_ACTIVE set to any non-empty value should_use_uv returns
\* False, whatever AUTO_UV_DISABLE, the launcher, the script path and the
\* markers are
C3_GuardWins ==
    (call.fn = "should_use_uv" /\ GuardSet(environ))
        => (ret.result = FALSE /\ ret.raised = "")

\* the guard is "0", nothing disables, and the working directory is a project
C3_Witness ==
    /\ call.fn = "should_use_uv"
    /\ environ["UV_RUN_ACTIVE"] = <<"0">>
    /\ environ["AUTO_UV_DISABLE"] = NoVal
    /\ ContainsMarker(cwd)
    /\ ret.result = FALSE

\* the same letter in either case
SameLetter(a, b) ==
    \/ a = b
    \/ {a, b} \in {{"t", "T"}, {"r", "R"}, {"u", "U"}, {"e", "E"}, {"y", "Y"}, {"s", "S"}}

EqualIgnoringCase(v, w) ==
    Len(v) = Len(w) /\ \A i \in 1..Len(v) : SameLetter(v[i], w[i])

\* the value is "1", "true" or "yes" in any letter case
Disabling(v) ==
    /\ v # NoVal
    /\ \/ EqualIgnoringCase(v, <<"1">>)
       \/ EqualIgnoringCase(v, <<"t", "r", "u", "e">>)
       \/ EqualIgnoringCase(v, <<"y", "e", "s">>)

\* C5: AUTO_UV_DISABLE equal to "1", "true" or "yes" in any letter case makes
\* should_use_uv return False; any other value, the empty string included,
\* gives the result the call has with the variable unset
C5_DisableVariable ==
    call.fn = "should_use_uv" =>
        IF Disabling(environ["AUTO_UV_DISABLE"])
        THEN ret.result = FALSE /\ ret.raised = ""
        ELSE \A probe \in (IF call.probe = "" THEN AllProbeOutcomes ELSE {call.probe}) :
                LET unset == should_use_uv([environ EXCEPT !["AUTO_UV_DISABLE"] = NoVal],
                                           call.script_path, probe)
                IN ret = [result |-> unset.result, raised |-> unset.raised]

\* "TRUE" disables a call that would otherwise answer yes
C5_Witness ==
    /\ call.fn = "should_use_uv"
    /\ environ["AUTO_UV_DISABLE"] = <<"T", "R", "U", "E">>
    /\ ~GuardSet(environ)
    /\ ContainsMarker(cwd)
    /\ ret.result = FALSE
    /\ should_use_uv([environ EXCEPT !["AUTO_UV_DISABLE"] = NoVal], call.script_path, "ok").result

\* the directory holding the script named by an argument of should_use_uv
ScriptDirOf(script_path) == Ancestor(abspath(script_path), 1)

\* a scan from the script's directory, or failing that from the working
\* directory, finds a marked directory
ProjectFound(script_path) ==
    \/ script_path # None /\ script_path # <<>>
         /\ NearestMarked(ScriptDirOf(script_path)) # None
    \/ NearestMarked(cwd) # None

\* C9: with no guard, no disabling value and a successful probe,
\* should_use_uv is True exactly when the scan from the script's directory
\* or, failing that, from the working directory finds a marked directory
C9_Decision ==
    (/\ call.fn = "should_use_uv"
     /\ ~GuardSet(environ)
     /\ ~Disabling(environ["AUTO_UV_DISABLE"])
     /\ call.probe = "ok")
        => (ret.raised = "" /\ (ret.result <=> ProjectFound(call.script_path)))

\* the script's tree has no marker and the working directory has a .venv
C9_Witness ==
    /\ call.fn = "should_use_uv"
    /\ call.probe = "ok"
    /\ call.script_path = SrvScript
    /\ cwd = ProjDir
    /\ NearestMarked(SrvDir) = None
    /\ dirs = {Entry(ProjDir, <<".venv">>)}
    /\ ret.result = TRUE

\* the launcher can be found on PATH and executed
UvInstalled == UvBin \in files /\ UvBin \in execs /\ environ["PATH"] = PathValue

\* C1, the lookup's case: the probe found uv in os.defpath, PATH is unset,
\* and the call returned after a yes without trying os.execve
C1_NoUvOnPath ==
    /\ call.fn = "auto_use_uv"
    /\ obs.decided
    /\ obs.uv_path = None
    /\ ~obs.execve
    /\ ret = "returned"

\* C1: once should_use_uv has answered yes, auto_use_uv returns to its
\* caller whenever no executable uv is found on PATH or os.execve raises;
\* it does not raise, and it does not return only when os.execve replaced
\* the process
C1_FailOpen ==
    (call.fn = "auto_use_uv" /\ obs.decided) =>
        /\ ret \in {"returned", "replaced"}
        /\ ret = "replaced" <=> (obs.execve /\ call.exec = "replaced")
        /\ (obs.uv_path = None \/ call.exec \in {"OSError", "ValueError"}) => ret = "returned"

\* os.execve raised ValueError after a yes, and the call returned
C1_Witness ==
    /\ call.fn = "auto_use_uv"
    /\ obs.decided
    /\ obs.execve
    /\ call.exec = "ValueError"
    /\ ret = "returned"
    /\ pc = "done"

\* C2: in a chain of processes that inherit the environment the process is
\* replaced at most once; after the replacement UV_RUN_ACTIVE is set in
\* every process of the chain, a call entered with the guard set returns
\* without replacing, and the script body runs exactly once
C2_NoReexecLoop ==
    /\ replacements <= 1
    /\ replacements = 1 => GuardSet(environ)
    /\ (call.fn = "auto_use_uv" /\ GuardSet(entryEnv)) => (ret = "returned" /\ ~obs.execve)
    /\ procRuns <= 1
    /\ pc = "done" => procRuns = 1

\* the process was replaced, the launcher started the script again, and the
\* second start ran the script body once
C2_Witness ==
    /\ replacements = 1
    /\ nprocs = 2
    /\ call.fn = "auto_use_uv"
    /\ GuardSet(entryEnv)
    /\ pc = "done"
    /\ procRuns = 1

\* the absolute path of the target script
TargetPath == abspath(argv[1])

HasSegment(p, name) == \E i \in 1..Len(Comps(p)) : Comps(p)[i] = name

\* auto_use_uv was called on a target that is a regular file
TargetIsFile == call.fn = "auto_use_uv" /\ argv # <<>> /\ argv[1] # <<>> /\ TargetPath \in files

\* the call came back without replacing the process or touching the guard
Untouched ==
    /\ ret = "returned"
    /\ ~obs.execve
    /\ environ = entryEnv

\* C6: a target whose absolute path has a site-packages or dist-packages
\* segment is never intercepted: auto_use_uv returns, the process is not
\* replaced and UV_RUN_ACTIVE is not set, launcher and markers
\* notwithstanding
C6_SitePackages ==
    (/\ call.fn = "auto_use_uv" /\ argv # <<>> /\ argv[1] # <<>>
     /\ HasSegment(TargetPath, <<"site-packages">>) \/ HasSegment(TargetPath, <<"dist-packages">>))
        => Untouched

\* the main script lies in dist-packages inside a project, uv installed
C6_Witness ==
    /\ TargetIsFile
    /\ argv[1] = DistScript
    /\ mainFile = DistScript
    /\ ContainsMarker(ProjDir)
    /\ UvInstalled
    /\ ~GuardSet(entryEnv)
    /\ entryEnv["AUTO_UV_DISABLE"] = NoVal
    /\ obs.rejected = "site-packages"
    /\ ret = "returned"

\* path p is directory d or lies under it
Under(p, d) ==
    Len(Comps(d)) <= Len(Comps(p)) /\ SubSeq(Comps(p), 1, Len(Comps(d))) = Comps(d)

ListedSystemDirs ==
    { PathOf(<< <<"usr">>, <<"bin">> >>), PathOf(<< <<"usr">>, <<"local">>, <<"bin">> >>),
      PathOf(<< <<"opt">>, <<"bin">> >>), PathOf(<< <<"bin">> >>), PathOf(<< <<"s", "bin">> >>),
      PathOf(<< <<"usr">>, <<"s", "bin">> >>), PathOf(<< <<"usr">>, <<"local">>, <<"s", "bin">> >>) }

\* C7: a target equal to or under sys.prefix, sys.base_prefix or one of the
\* listed system directories is not intercepted, launcher and markers
\* notwithstanding
C7_PrefixAndSystemDirs ==
    (/\ call.fn = "auto_use_uv" /\ argv # <<>> /\ argv[1] # <<>>
     /\ \/ Under(TargetPath, prefixes.prefix)
        \/ Under(TargetPath, prefixes.base_prefix)
        \/ \E d \in ListedSystemDirs : Under(TargetPath, d))
        => (ret = "returned" /\ ~obs.execve)

\* the main script lies under sys.base_prefix only, in a project, uv installed
C7_Witness ==
    /\ TargetIsFile
    /\ argv[1] = PrefixScript
    /\ mainFile = PrefixScript
    /\ prefixes.prefix = VenvDir
    /\ NearestMarked(cwd) # None
    /\ UvInstalled
    /\ ~GuardSet(entryEnv)
    /\ entryEnv["AUTO_UV_DISABLE"] = NoVal
    /\ obs.rejected = "prefix"
    /\ ret = "returned"

\* the entry point is missing, None or empty, or is another file than
\* sys.argv[0] once both are absolute
NotTheMainProgram ==
    \/ argv = <<>>
    \/ mainFile \in {NoAttr, None, <<>>}
    \/ abspath(mainFile) # abspath(argv[1])

\* sys.argv[0] is a bare file name and the entry point is the same file
\* spelled from the working directory
RelativeAndAbsolute ==
    /\ argv # <<>>
    /\ Len(argv[1]) = 1
    /\ argv[1][1] \notin {sep, ".", ".."}
    /\ mainFile = cwd \o <<sep>> \o argv[1]

\* C8: when sys.argv is empty or __main__.__file__ is missing, empty or
\* another file than sys.argv[0], auto_use_uv returns without replacing the
\* process and without raising; a relative and an absolute spelling of the
\* same file are the same file
C8_ImportContext ==
    call.fn = "auto_use_uv" =>
        /\ NotTheMainProgram => (ret = "returned" /\ ~obs.execve /\ obs.rejected = "not main")
        /\ RelativeAndAbsolute => obs.rejected # "not main"

\* C8, the equal spellings: python a.py in the project directory, the entry
\* point absolute, and the process was replaced
C8_RelativeIntercepted ==
    /\ call.fn = "auto_use_uv"
    /\ RelativeAndAbsolute
    /\ ret = "replaced"

\* another script is the main program; everything else favours interception
C8_Witness ==
    /\ call.fn = "auto_use_uv"
    /\ argv = <<ProjScript>>
    /\ mainFile = OtherScript
    /\ ContainsMarker(ProjDir)
    /\ UvInstalled
    /\ ~GuardSet(entryEnv)
    /\ entryEnv["AUTO_UV_DISABLE"] = NoVal
    /\ ret = "returned"
    /\ ~obs.execve

\* C4: every failure of the version probe is downgraded to "do not
\* intercept": no exception leaves auto_use_uv and no replacement is tried
C4_ProbeFailures ==
    (call.fn = "auto_use_uv" /\ obs.probed /\ call.probe # "ok")
        => (ret = "returned" /\ ~obs.decided /\ ~obs.execve)

\* C11: when auto_use_uv calls os.execve, UV_RUN_ACTIVE is already "1" in
\* os.environ, the environment handed over is that os.environ (the entry
\* environment with the guard set and nothing else changed), and the
\* argument list is "uv", "run" and then sys.argv, unchanged and in order
C11_ReplacementPayload ==
    (call.fn = "auto_use_uv" /\ obs.execve) =>
        /\ obs.execEnv["UV_RUN_ACTIVE"] = <<"1">>
        /\ obs.execEnv = environ
        /\ \A k \in {"AUTO_UV_DISABLE", "PATH"} : obs.execEnv[k] = entryEnv[k]
        /\ Len(obs.cmd) = Len(argv) + 2
        /\ obs.cmd[1] = <<"uv">>
        /\ obs.cmd[2] = <<"run">>
        /\ \A i \in 1..Len(argv) : obs.cmd[i + 2] = argv[i]

\* python /home/proj/a.py --flag x was replaced by uv run with all three
\* arguments
C11_Witness ==
    /\ call.fn = "auto_use_uv"
    /\ ret = "replaced"
    /\ argv = <<ProjScript, <<"--flag">>, <<"x">> >>
    /\ obs.cmd = << <<"uv">>, <<"run">>, ProjScript, <<"--flag">>, <<"x">> >>
    /\ entryEnv["UV_RUN_ACTIVE"] = NoVal
    /\ obs.execEnv["UV_RUN_ACTIVE"] = <<"1">>

\* C12: whenever auto_use_uv returns to its caller, os.environ,
\* UV_RUN_ACTIVE included, is what it was when the call was entered
C12_AllOrNothing ==
    (call.fn = "auto_use_uv" /\ ret = "returned") => environ = entryEnv

\* C12, where it holds: the call returned before line 137, on an early
\* exit or a negative decision, and left os.environ alone
C12_ReturnedBeforeGuard ==
    (call.fn = "auto_use_uv" /\ ret = "returned" /\ ~obs.decided) => environ = entryEnv

\* one of the early exits of auto_use_uv applies: not the main program, the
\* target no regular file, a site-packages or dist-packages segment, a bin
\* or Scripts segment, under an interpreter prefix, under a system directory
EarlyExitApplies ==
    \/ NotTheMainProgram
    \/ TargetPath \notin files
    \/ HasSegment(TargetPath, <<"site-packages">>)
    \/ HasSegment(TargetPath, <<"dist-packages">>)
    \/ HasSegment(TargetPath, <<"bin">>)
    \/ HasSegment(TargetPath, <<"Scripts">>)
    \/ Under(TargetPath, prefixes.prefix)
    \/ Under(TargetPath, prefixes.base_prefix)
    \/ \E d \in ListedSystemDirs : Under(TargetPath, d)

\* C13: when an early exit of auto_use_uv applies, the version probe is not
\* run, no directory is scanned for markers and os.environ is not modified;
\* and with UV_RUN_ACTIVE or a disabling AUTO_UV_DISABLE set the probe is
\* not run either
C13_GuardsFirst ==
    call.fn = "auto_use_uv" =>
        /\ EarlyExitApplies =>
              /\ ret = "returned"
              /\ ~obs.probed
              /\ obs.inspected = <<>>
              /\ environ = entryEnv
        /\ (GuardSet(entryEnv) \/ Disabling(entryEnv["AUTO_UV_DISABLE"])) =>
              /\ ~obs.probed
              /\ obs.inspected = <<>>

\* the main script of a project, uv installed, AUTO_UV_DISABLE=YES: the
\* early exits pass and should_use_uv answers without probing
C13_Witness ==
    /\ call.fn = "auto_use_uv"
    /\ ~EarlyExitApplies
    /\ entryEnv["AUTO_UV_DISABLE"] = <<"Y", "E", "S">>
    /\ ~GuardSet(entryEnv)
    /\ UvInstalled
    /\ NearestMarked(TargetPath) # None
    /\ ~obs.probed
    /\ ret = "returned"

\* C13, the early exits: a script under /usr/sbin in a marked tree, uv
\* installed, was rejected without a probe
C13_EarlyExitReached ==
    /\ call.fn = "auto_use_uv"
    /\ argv = <<SbinScript>>
    /\ mainFile = SbinScript
    /\ UvInstalled
    /\ NearestMarked(TargetPath) # None
    /\ ~GuardSet(entryEnv)
    /\ entryEnv["AUTO_UV_DISABLE"] = NoVal
    /\ ~obs.probed
    /\ ret = "returned"

\* the directories the recorded scan tested, and where it started
Inspected == obs.inspected
ScanStart == abspath(call.start_dir)

\* C14: a scan tests at most max_depth directories, the start directory and
\* then one ancestor after the other; it tests no directory after the root;
\* a scan that finds nothing has reached the root or tested max_depth
\* directories; and a marker only further up than that is not reported
C14_BoundedScan ==
    call.fn = "_find_project_root" =>
        /\ Len(Inspected) >= 1
        /\ Len(Inspected) <= max_depth
        /\ Len(Inspected) <= Len(Comps(ScanStart)) + 1
        /\ \A i \in 1..Len(Inspected) : Inspected[i] = Ancestor(ScanStart, i - 1)
        /\ ret = None =>
              \/ Len(Inspected) = max_depth
              \/ Inspected[Len(Inspected)] = Root
        /\ ret # None => ret = Inspected[Len(Inspected)]
        /\ (\A k \in 0..Len(Comps(ScanStart)) :
               ContainsMarker(Ancestor(ScanStart, k)) => k >= max_depth) => ret = None

\* started deeper than max_depth with the only marker just below the root:
\* max_depth directories tested, nothing reported
C14_Witness ==
    /\ call.fn = "_find_project_root"
    /\ call.start_dir = Deep(DeepLevels)
    /\ files = {Entry(Deep(1), <<"uv.lock">>)}
    /\ dirs = {}
    /\ Len(Inspected) = max_depth
    /\ ret = None

\* C14, the root: a scan of an unmarked tree from /home/proj stopped at the
\* root after three directories
C14_StoppedAtRoot ==
    /\ call.fn = "_find_project_root"
    /\ call.start_dir = ProjDir
    /\ ret = None
    /\ Inspected = <<ProjDir, HomeDir, Root>>

====
